---- MODULE Spec2Model ----
(***************************************************************************)
(* Leader election and chunked frame distribution of the NeoPixel nodes    *)
(* (networking.cpp, ui.cpp, config.h and the sketch's loop()).             *)
(*                                                                         *)
(* Every node runs the same firmware.  Its protocol globals are one record *)
(* per node (node[n]); loop() calls handleNetworking() once per iteration  *)
(* and the ESP-NOW receive callback onRecv() runs in the radio task, so it *)
(* can run between any two statements of handleNetworking().  The steps of *)
(* handleNetworking() are therefore separate actions, split where it reads *)
(* or writes a global that onRecv() writes; onRecv() itself is one action. *)
(*                                                                         *)
(* Time is the millisecond clock millis().  It advances by Quantum between *)
(* loop iterations; every running node executes one loop iteration per     *)
(* quantum and the radio delivers within the quantum.                      *)
(***************************************************************************)
EXTENDS Integers, Sequences, FiniteSets, TLC

\* ---------------------------------------------------------------- config.h
NUM_LEDS == 300
LEADER_TIMEOUT == 1500
ELECTION_BASE_DELAY == 200
ELECTION_JITTER == 50
ELECTION_TIMEOUT == ELECTION_BASE_DELAY + ELECTION_JITTER + 50
LEADER_HEARTBEAT_INTERVAL == 100
MSGTYPE_RAW == 0
MSGTYPE_TOKEN == 1
\* pixels per chunk: the literal 75 of onRecv(), sendRaw() and the full-mask test
CHUNK_LEDS == 75

AUTO == "AUTO"
GO == "GO"
QUIET == "QUIET"
FOLLOWER == "FOLLOWER"
ELECT == "ELECT"
LEADER == "LEADER"

\* ------------------------------------------------------------------ bounds
\* the clock advances in steps of Quantum ms, MaxQuanta times
Quantum == 250
MaxQuanta == 12
\* the horizon, in quanta, of the runs of the nodes among themselves
MaxNetQuanta == 14
\* nodes may be powered on during the first MaxBootSkew quanta
MaxBootSkew == 2
\* datagrams from outside carry tokens 1..MaxToken and chunk indices 0..MaxIdx
MaxToken == 3
MaxIdx == 5
\* the runs of one node alone: steps of FineQuantum ms, MaxFineQuanta times
FineQuantum == 25
MaxFineQuanta == 88
\* button A is clicked at most MaxClicks times in a run
MaxClicks == 3
\* the horizon, in quanta, of the runs in which the Leader is lost
MaxLossQuanta == 23
\* datagrams a sender puts on the wire, and outside datagrams, in a wire run
MaxWireSends == 2
MaxWireEnv == 1

Nodes == {1, 2, 3}
\* the two nodes of the runs of a pair
Pair == {1, 2}
\* the last three bytes of each node's station MAC address
MacTail == <<<<0, 0, 2>>, <<0, 0, 3>>, <<0, 0, 1>>>>
\* representative channel values of a chunk's pixels
PixVals == {7}
\* representative positions of the brightness control (0..9)
BrightLevels == {5}

VARIABLES
  node,     \* node[n]: the firmware's globals on node n
  up,       \* up[n]: setup() has run and the receive callback is registered
  pc,       \* pc[n]: where loop() is inside handleNetworking()
  ticked,   \* ticked[n]: loop() has run in the current quantum
  now,      \* millis()
  inbox,    \* inbox[n]: datagrams received by the radio, callback pending
  hist      \* hist[n]: history of node n (not read by the program)

vars == <<node, up, pc, ticked, now, inbox, hist>>

\* ------------------------------------------------------------- arithmetic
Min(a, b) == IF a < b THEN a ELSE b
Max(a, b) == IF a > b THEN a ELSE b

\* bit i of the unsigned value m
Bit(m, i) == (m \div (2 ^ i)) % 2
\* m | (1 << i)
OrBit(m, i) == IF Bit(m, i) = 1 THEN m ELSE m + 2 ^ i

\* uint32_t a - b for clock values: the difference when a >= b; when a < b it
\* wraps to 2^32 - (b - a), of which only "larger than every timeout" is used
WrapsHigh == 2147483647
Sub32(a, b) == IF a >= b THEN a - b ELSE WrapsHigh

\* ((0xFFFFFFFF - tok) * ELECTION_BASE_DELAY) / 0xFFFFFFFF in uint32_t
\* arithmetic, on 16-bit limbs: the product is reduced modulo 2^32
ElectionBaseDelay32(tok) ==
  LET xhi == 65535 - (tok \div 65536)
      xlo == 65535 - (tok % 65536)
      plo == xlo * ELECTION_BASE_DELAY
      phi == (xhi * ELECTION_BASE_DELAY + (plo \div 65536)) % 65536
  IN  IF phi = 65535 /\ (plo % 65536) = 65535 THEN 1 ELSE 0

\* the same formula in unbounded arithmetic, on 16-bit limbs: the product is
\* thi * 2^32 + tlo * 2^16 + low, and its quotient by 2^32 - 1 is thi, plus
\* one when thi + tlo * 2^16 + low reaches 2^32 - 1
ElectionBaseDelayExact(tok) ==
  LET xhi == 65535 - (tok \div 65536)
      xlo == 65535 - (tok % 65536)
      plo == xlo * ELECTION_BASE_DELAY
      t == xhi * ELECTION_BASE_DELAY + (plo \div 65536)
      thi == t \div 65536
      tlo == t % 65536
      l2 == (plo % 65536) + thi
      tl2 == tlo + (l2 \div 65536)
  IN  IF tl2 > 65535 \/ (tl2 = 65535 /\ (l2 % 65536) = 65535)
        THEN thi + 1 ELSE thi

\* FastLED's scale8(i, scale): (i * (1 + scale)) >> 8
scale8(i, scale) == (i * (1 + scale)) \div 256

\* FastLED.setBrightness(map(getBright(), 0, 9, 0, 255))
Brightness(level) == (level * 255) \div 9

\* number of chunks: (NUM_LEDS + 74) / 75
ChunkCount == (NUM_LEDS + (CHUNK_LEDS - 1)) \div CHUNK_LEDS
\* the mask of a strip one chunk shorter
FullMaskShort == (2 ^ (ChunkCount - 1)) - 1

\* (1u << ((NUM_LEDS + 74) / 75)) - 1u
FullMask == (2 ^ ChunkCount) - 1

\* ------------------------------------------------------- globals and setup
\* the static initialisers of the sketch
InitNode ==
  [ currentMode |-> AUTO, fsmState |-> FOLLOWER,
    masterSeq |-> 0, chunkMask |-> 0, lastRecvMillis |-> 0,
    electionStart |-> 0, electionEnd |-> 0,
    myToken |-> 0, highestTokenSeen |-> 0, myDelay |-> 0,
    electionBroadcasted |-> FALSE,
    lastHeartbeat |-> 0, missedFrameCount |-> 0,
    leds |-> [i \in 0 .. (ChunkCount - 1) |-> 0] ]

\* history of a node, kept beside the globals:
\*   tx       datagrams sent so far in the current call of handleNetworking()
\*   obsTok   largest token of a Heartbeat/Token datagram handled in the
\*   obsRaw   current (or just concluded) election round; of a Pixel-Chunk
\*   applied  chunk indices copied since chunkMask was last cleared
\*   consumed a completed frame has been shown
\*   misses   liveness checks in a row that found the timeout exceeded, no
\*            datagram handled by the follower in between
\*   ballots  Heartbeat/Token datagrams sent in the current (or last) round
\*   junk     a malformed datagram was handled since the loop last started a
\*            call of handleNetworking()
\*   clicks   clicks of button A so far
\*   hbAt     time of the last heartbeat sent as Leader, -1 before the first
\*   afterLoss "none" until a Leader is lost; then "failed" on the lost node,
\*            "waiting" on a remaining Follower until it starts an election
\*            round, "elected" from then on and on a node that was Electing
InitHist ==
  [ tx |-> <<>>, obsTok |-> 0, obsRaw |-> 0, applied |-> {},
    consumed |-> FALSE, misses |-> 0, ballots |-> 0, junk |-> FALSE,
    clicks |-> 0, hbAt |-> -1, afterLoss |-> "none" ]

\* initNetworking(): the token is the last three MAC bytes
TokenOfMac(mac) == mac[1] * 65536 + mac[2] * 256 + mac[3]

\* setup(): token from the MAC, then the timing globals
setup(s, mac, t) ==
  [s EXCEPT !.myToken = TokenOfMac(mac),
            !.lastRecvMillis = t,
            !.lastHeartbeat = t,
            !.missedFrameCount = 0]

\* --------------------------------------------------------------- datagrams
TokenMsg(tok) ==
  [kind |-> MSGTYPE_TOKEN, len |-> 5, seq |-> 0, token |-> tok, idx |-> 0, pay |-> 0]

\* sendToken()
sendToken(s) == TokenMsg(s.myToken)

\* pixels of chunk c: min(75, NUM_LEDS - base)
ChunkCnt(c) == Min(CHUNK_LEDS, NUM_LEDS - c * CHUNK_LEDS)

RawMsg(seq, tok, c, p) ==
  [kind |-> MSGTYPE_RAW, len |-> 10 + 3 * Max(ChunkCnt(c), 0), seq |-> seq,
   token |-> tok, idx |-> c, pay |-> p]

\* sendRaw(): one datagram per chunk, in index order, masterSeq++ after each;
\* the pixels go out scaled by the brightness bri
sendRaw(s, bri) ==
  [c \in 1 .. ChunkCount |->
     RawMsg(s.masterSeq + (c - 1), s.myToken, c - 1, scale8(s.leds[c - 1], bri))]

\* ------------------------------------------------------------------ onRecv
\* the Heartbeat/Token branch test
IsTokenMsg(d) == d.len >= 5 /\ d.kind = MSGTYPE_TOKEN
\* the drop test without the length
IsDroppedByKind(d) == d.kind # MSGTYPE_RAW

\* the drop test that follows it
IsDropped(d) == d.len < 10 \/ d.kind # MSGTYPE_RAW

\* the incoming token stored without the comparison
RatchetOverwrites(s, tok) == [s EXCEPT !.highestTokenSeen = tok]

\* if(incomingToken > highestTokenSeen) highestTokenSeen = incomingToken
RatchetToken(s, tok) ==
  [s EXCEPT !.highestTokenSeen = IF tok > @ THEN tok ELSE @]

\* if(fsmState == FOLLOWER && currentMode == AUTO) { lastRecvMillis = now; ... }
RefreshLiveness(s, t) ==
  IF s.fsmState = FOLLOWER /\ s.currentMode = AUTO
    THEN [s EXCEPT !.lastRecvMillis = t, !.missedFrameCount = 0]
    ELSE s

\* fsmState == LEADER && incomingToken > myToken
RawConflict(s, d) == s.fsmState = LEADER /\ d.token > s.myToken

\* the step-down without the change of role
StepDownKeepsRole(s, t) ==
  [s EXCEPT !.lastRecvMillis = t, !.chunkMask = 0, !.missedFrameCount = 0]

\* the step-down assignments, in onRecv() and in case LEADER
StepDown(s, t) ==
  [s EXCEPT !.fsmState = FOLLOWER, !.lastRecvMillis = t,
            !.chunkMask = 0, !.missedFrameCount = 0]

\* the follower branch is taken
AcceptsChunk(s) == s.fsmState = FOLLOWER /\ s.currentMode = AUTO

\* memcpy(leds + base, data + 10, cnt * 3) with cnt < 0: the size converts to
\* a value near 2^32 and the copy runs off the end of memory
MemcpyFaults(d) == ChunkCnt(d.idx) < 0

\* the follower branch: copy the payload, set the chunk's bit, refresh liveness
ApplyChunk(s, d, t) ==
  [s EXCEPT !.leds = IF ChunkCnt(d.idx) > 0
                       THEN [@ EXCEPT ![d.idx] = d.pay] ELSE @,
            !.chunkMask = OrBit(@, d.idx),
            !.lastRecvMillis = t,
            !.missedFrameCount = 0]

\* onRecv(): the globals after the callback ran on datagram d at time t
onRecv(s, d, t) ==
  IF IsTokenMsg(d) THEN RefreshLiveness(RatchetToken(s, d.token), t)
  ELSE IF IsDropped(d) THEN s
  ELSE IF RawConflict(s, d) THEN StepDown(s, t)
  ELSE IF AcceptsChunk(s) THEN ApplyChunk(s, d, t)
  ELSE s

\* the callback reaches the memcpy and the memcpy faults
onRecvFaults(s, d) ==
  /\ ~IsTokenMsg(d) /\ ~IsDropped(d) /\ ~RawConflict(s, d)
  /\ AcceptsChunk(s) /\ MemcpyFaults(d)

\* -------------------------------------------- handleNetworking, case FOLLOWER
\* chunkMask == ((1u << ((NUM_LEDS + 74) / 75)) - 1u)
FrameComplete(s) == s.chunkMask = FullMask

\* the show without the reset of the mask
ConsumeKeepsMask(s) == s

\* FastLED.show(); chunkMask = 0;
ConsumeFrame(s) == [s EXCEPT !.chunkMask = 0]

\* uint32_t timeSinceLastMsg = now - lastRecvMillis
TimeSinceLastMsg(s, t) == Sub32(t, s.lastRecvMillis)

\* timeSinceLastMsg > LEADER_TIMEOUT
TimedOut(s, t) == TimeSinceLastMsg(s, t) > LEADER_TIMEOUT

\* the else branch: if(timeSinceLastMsg < LEADER_TIMEOUT / 2) missedFrameCount = 0
FollowerAlive(s, t) ==
  IF TimeSinceLastMsg(s, t) < LEADER_TIMEOUT \div 2
    THEN [s EXCEPT !.missedFrameCount = 0]
    ELSE s

\* if(missedFrameCount >= 3)
MISSED_LIMIT == 3
\* the threshold test one miss early
MissedEnoughEarly(c) == c >= MISSED_LIMIT - 1
MissedEnough(c) == c >= MISSED_LIMIT

\* the timed-out Follower taking the lead at once, without a round
StartElectionAsLeader(s, t, j) ==
  [s EXCEPT !.fsmState = LEADER,
            !.electionStart = t,
            !.electionEnd = t + ELECTION_TIMEOUT,
            !.highestTokenSeen = s.myToken,
            !.myDelay = ElectionBaseDelay32(s.myToken) + j,
            !.electionBroadcasted = FALSE,
            !.missedFrameCount = 0]

\* the FOLLOWER -> ELECT assignments; j is the value of random(0, ELECTION_JITTER)
StartElection(s, t, j) ==
  [s EXCEPT !.fsmState = ELECT,
            !.electionStart = t,
            !.electionEnd = t + ELECTION_TIMEOUT,
            !.highestTokenSeen = s.myToken,
            !.myDelay = ElectionBaseDelay32(s.myToken) + j,
            !.electionBroadcasted = FALSE,
            !.missedFrameCount = 0]

\* the body of the timeout branch: missedFrameCount++, then the threshold test
FollowerMissed(s, t, j) ==
  LET s1 == [s EXCEPT !.missedFrameCount = @ + 1]
  IN  IF MissedEnough(s1.missedFrameCount) THEN StartElection(s1, t, j) ELSE s1

\* ----------------------------------------------- handleNetworking, case ELECT
\* !electionBroadcasted && now >= electionStart + myDelay
BroadcastDue(s, t) == ~s.electionBroadcasted /\ t >= s.electionStart + s.myDelay

\* now >= electionEnd
RoundOver(s, t) == t >= s.electionEnd

\* the test with an equal token counted as higher
SeesHigherOrEqual(s) == s.highestTokenSeen >= s.myToken

\* highestTokenSeen > myToken, at the end of the round and in case LEADER
SeesHigher(s) == s.highestTokenSeen > s.myToken

\* the end of the round
ConcludeRound(s, t) ==
  IF SeesHigher(s)
    THEN [s EXCEPT !.fsmState = FOLLOWER, !.lastRecvMillis = t]
    ELSE [s EXCEPT !.fsmState = LEADER]

\* case ELECT without the broadcast flag being set
ElectTickKeepsFlag(s, t) == IF RoundOver(s, t) THEN ConcludeRound(s, t) ELSE s

\* case ELECT as a whole (it reads no global that onRecv() writes but
\* highestTokenSeen, once)
ElectTick(s, t) ==
  LET s1 == IF BroadcastDue(s, t) THEN [s EXCEPT !.electionBroadcasted = TRUE] ELSE s
  IN  IF RoundOver(s1, t) THEN ConcludeRound(s1, t) ELSE s1

\* ---------------------------------------------- handleNetworking, case LEADER
\* the heartbeat test with a strict comparison
HeartbeatDueLate(s, t) == Sub32(t, s.lastHeartbeat) > LEADER_HEARTBEAT_INTERVAL

\* now - lastHeartbeat >= LEADER_HEARTBEAT_INTERVAL
HeartbeatDue(s, t) == Sub32(t, s.lastHeartbeat) >= LEADER_HEARTBEAT_INTERVAL

\* the heartbeat, then the step-down test
LeaderHead(s, t) ==
  LET s1 == IF HeartbeatDue(s, t) THEN [s EXCEPT !.lastHeartbeat = t] ELSE s
  IN  IF SeesHigher(s1) THEN StepDown(s1, t) ELSE s1

\* the pattern effect writes the pixel buffer (value v stands for the frame)
Render(s, v) == [s EXCEPT !.leds = [i \in 0 .. (ChunkCount - 1) |-> v]]

\* masterSeq++ once per frame
AfterSendRawPerFrame(s) == [s EXCEPT !.masterSeq = @ + 1]

\* the globals after sendRaw(): masterSeq++ once per chunk
AfterSendRaw(s) == [s EXCEPT !.masterSeq = @ + ChunkCount]

\* ------------------------------------------------------------ handleButtons
\* Button A clicked: AUTO -> GO -> QUIET -> AUTO
handleButtons(s, t) ==
  IF s.currentMode = AUTO THEN [s EXCEPT !.currentMode = GO]
  ELSE IF s.currentMode = GO THEN [s EXCEPT !.currentMode = QUIET]
  ELSE [s EXCEPT !.currentMode = AUTO, !.fsmState = FOLLOWER, !.lastRecvMillis = t]

\* ------------------------------------------------------------------ actions
\* the datagrams msgs leave node n: every other running node's radio gets them
Broadcast(n, msgs) ==
  inbox' = [m \in Nodes |->
              IF m # n /\ up[m] THEN inbox[m] \o msgs ELSE inbox[m]]

\* history of node n after its loop sent msgs
Sent(n, msgs) == [hist[n] EXCEPT !.tx = @ \o msgs]

\* power-on: setup() runs and registers the callback
Boot(n) ==
  /\ ~up[n]
  /\ node' = [node EXCEPT ![n] = setup(InitNode, MacTail[n], now)]
  /\ up' = [up EXCEPT ![n] = TRUE]
  /\ pc' = [pc EXCEPT ![n] = "idle"]
  /\ hist' = [hist EXCEPT ![n] = InitHist]
  /\ UNCHANGED <<ticked, now, inbox>>

\* loop() in which handleButtons() sees a click of button A.  Into GO or
\* QUIET the iteration goes on with the local effect, which writes the pixel
\* buffer; into AUTO it goes on into handleNetworking().
ButtonA(n) ==
  /\ up[n] /\ pc[n] = "idle" /\ ~ticked[n]
  /\ hist[n].clicks < MaxClicks
  /\ ticked' = [ticked EXCEPT ![n] = TRUE]
  /\ LET s1 == handleButtons(node[n], now)
     IN  IF s1.currentMode = AUTO
           THEN /\ node' = [node EXCEPT ![n] = s1]
                /\ pc' = [pc EXCEPT ![n] = "net"]
           ELSE /\ \E v \in PixVals : node' = [node EXCEPT ![n] = Render(s1, v)]
                /\ pc' = pc
  /\ hist' = [hist EXCEPT ![n].clicks = @ + 1, ![n].tx = <<>>, ![n].junk = FALSE]
  /\ UNCHANGED <<up, now, inbox>>

\* handleNetworking() entered in the iteration that switched to AUTO: the
\* node is FOLLOWER, the completion test
EnterNetworking(n) ==
  /\ up[n] /\ pc[n] = "net"
  /\ pc' = [pc EXCEPT ![n] = IF FrameComplete(node[n]) THEN "show" ELSE "check"]
  /\ hist' = [hist EXCEPT ![n].obsTok = 0, ![n].obsRaw = 0]
  /\ UNCHANGED <<node, up, ticked, now, inbox>>

\* loop() outside AUTO: handleNetworking() is not called, the local effect
\* writes the pixel buffer
TickLocal(n) ==
  /\ up[n] /\ pc[n] = "idle" /\ ~ticked[n]
  /\ node[n].currentMode # AUTO
  /\ ticked' = [ticked EXCEPT ![n] = TRUE]
  /\ \E v \in PixVals : node' = [node EXCEPT ![n] = Render(node[n], v)]
  /\ hist' = [hist EXCEPT ![n].tx = <<>>, ![n].junk = FALSE]
  /\ UNCHANGED <<up, pc, now, inbox>>

\* handleNetworking(), case FOLLOWER: the completion test
TickFollower(n) ==
  /\ up[n] /\ pc[n] = "idle" /\ ~ticked[n]
  /\ node[n].currentMode = AUTO /\ node[n].fsmState = FOLLOWER
  /\ ticked' = [ticked EXCEPT ![n] = TRUE]
  /\ pc' = [pc EXCEPT ![n] = IF FrameComplete(node[n]) THEN "show" ELSE "check"]
  /\ hist' = [hist EXCEPT ![n].tx = <<>>, ![n].obsTok = 0, ![n].obsRaw = 0,
                          ![n].junk = FALSE]
  /\ UNCHANGED <<node, up, now, inbox>>

\* case FOLLOWER: FastLED.show(); chunkMask = 0
FollowerShow(n) ==
  /\ up[n] /\ pc[n] = "show"
  /\ node' = [node EXCEPT ![n] = ConsumeFrame(node[n])]
  /\ pc' = [pc EXCEPT ![n] = "check"]
  /\ hist' = [hist EXCEPT ![n].applied = {}, ![n].consumed = TRUE]
  /\ UNCHANGED <<up, ticked, now, inbox>>

\* case FOLLOWER: the liveness check on timeSinceLastMsg
FollowerCheck(n) ==
  /\ up[n] /\ pc[n] = "check"
  /\ IF TimedOut(node[n], now)
       THEN /\ pc' = [pc EXCEPT ![n] = "missed"]
            /\ hist' = [hist EXCEPT ![n].misses = @ + 1]
            /\ UNCHANGED node
       ELSE /\ pc' = [pc EXCEPT ![n] = "idle"]
            /\ hist' = [hist EXCEPT ![n].misses = 0]
            /\ node' = [node EXCEPT ![n] = FollowerAlive(node[n], now)]
  /\ UNCHANGED <<up, ticked, now, inbox>>

\* values random(0, ELECTION_JITTER) takes in the model
JitterVals == {0, ELECTION_JITTER - 1}

\* case FOLLOWER: the timeout branch, missedFrameCount++ and perhaps ELECT
FollowerMiss(n) ==
  /\ up[n] /\ pc[n] = "missed"
  /\ \E j \in JitterVals :
       node' = [node EXCEPT ![n] = FollowerMissed(node[n], now, j)]
  /\ pc' = [pc EXCEPT ![n] = "idle"]
  /\ hist' = [hist EXCEPT ![n] =
                IF node'[n].fsmState = ELECT
                  THEN [@ EXCEPT !.obsTok = 0, !.obsRaw = 0, !.misses = 0,
                                 !.ballots = 0,
                                 !.afterLoss = IF @ = "waiting" THEN "elected" ELSE @]
                  ELSE @]
  /\ UNCHANGED <<up, ticked, now, inbox>>

\* handleNetworking(), case ELECT
TickElect(n) ==
  /\ up[n] /\ pc[n] = "idle" /\ ~ticked[n]
  /\ node[n].currentMode = AUTO /\ node[n].fsmState = ELECT
  /\ ticked' = [ticked EXCEPT ![n] = TRUE]
  /\ node' = [node EXCEPT ![n] = ElectTick(node[n], now)]
  /\ LET msgs == IF BroadcastDue(node[n], now) THEN <<sendToken(node[n])>> ELSE <<>>
     IN  /\ Broadcast(n, msgs)
         /\ hist' = [hist EXCEPT ![n].tx = msgs, ![n].ballots = @ + Len(msgs),
                                 ![n].junk = FALSE]
  /\ UNCHANGED <<up, pc, now>>

\* handleNetworking(), case LEADER: heartbeat, then the step-down test
TickLeader(n) ==
  /\ up[n] /\ pc[n] = "idle" /\ ~ticked[n]
  /\ node[n].currentMode = AUTO /\ node[n].fsmState = LEADER
  /\ ticked' = [ticked EXCEPT ![n] = TRUE]
  /\ node' = [node EXCEPT ![n] = LeaderHead(node[n], now)]
  /\ pc' = [pc EXCEPT ![n] = IF SeesHigher(node[n]) THEN "idle" ELSE "stream"]
  /\ LET msgs == IF HeartbeatDue(node[n], now) THEN <<sendToken(node[n])>> ELSE <<>>
     IN  /\ Broadcast(n, msgs)
         /\ hist' = [hist EXCEPT ![n].tx = msgs,
                                 ![n].obsTok = 0, ![n].obsRaw = 0,
                                 ![n].junk = FALSE,
                                 ![n].hbAt = IF msgs # <<>> THEN now ELSE @,
                                 ![n].applied = IF SeesHigher(node[n]) THEN {} ELSE @]
  /\ UNCHANGED <<up, now>>

\* case LEADER: the pattern effect, FastLED.show() and sendRaw()
LeaderStream(n) ==
  /\ up[n] /\ pc[n] = "stream"
  /\ \E v \in PixVals, b \in BrightLevels :
       LET s1 == Render(node[n], v)
           out == sendRaw(s1, Brightness(b))
       IN  /\ node' = [node EXCEPT ![n] = AfterSendRaw(s1)]
           /\ Broadcast(n, out)
           /\ hist' = [hist EXCEPT ![n] = Sent(n, out)]
  /\ pc' = [pc EXCEPT ![n] = "idle"]
  /\ UNCHANGED <<up, ticked, now>>

\* a malformed datagram: a Heartbeat/Token shorter than 5 bytes, a Pixel-Chunk
\* shorter than 10 bytes, or an unknown first byte
IsMalformed(d) ==
  \/ d.kind = MSGTYPE_TOKEN /\ d.len < 5
  \/ d.kind = MSGTYPE_RAW /\ d.len < 10
  \/ d.kind \notin {MSGTYPE_RAW, MSGTYPE_TOKEN}

\* history of the callback on node n for datagram d
RecvHist(n, d) ==
  LET s == node[n]
      h == hist[n]
      inRound == s.fsmState = ELECT
      isTok == IsTokenMsg(d)
      isRaw == ~isTok /\ ~IsDropped(d)
  IN  [h EXCEPT
         !.obsTok = IF inRound /\ isTok THEN Max(@, d.token) ELSE @,
         !.obsRaw = IF inRound /\ isRaw THEN Max(@, d.token) ELSE @,
         !.applied = IF isRaw /\ RawConflict(s, d) THEN {}
                     ELSE IF isRaw /\ AcceptsChunk(s) THEN @ \cup {d.idx}
                     ELSE @,
         !.misses = IF (isTok \/ isRaw) /\ AcceptsChunk(s) THEN 0 ELSE @,
         !.junk = @ \/ IsMalformed(d)]

\* the radio task runs onRecv() on node n for datagram d; a faulting memcpy
\* panics the chip, which restarts
Recv(n, d) ==
  IF onRecvFaults(node[n], d)
    THEN /\ node' = [node EXCEPT ![n] = InitNode]
         /\ up' = [up EXCEPT ![n] = FALSE]
         /\ pc' = [pc EXCEPT ![n] = "idle"]
         /\ hist' = [hist EXCEPT ![n] = InitHist]
    ELSE /\ node' = [node EXCEPT ![n] = onRecv(node[n], d, now)]
         /\ hist' = [hist EXCEPT ![n] = RecvHist(n, d)]
         /\ UNCHANGED <<up, pc>>

\* a datagram of another running node arrives
Deliver(n) ==
  /\ up[n] /\ inbox[n] # <<>>
  /\ Recv(n, Head(inbox[n]))
  /\ inbox' = [inbox EXCEPT ![n] = Tail(@)]
  /\ UNCHANGED <<ticked, now>>

\* datagrams other devices on the channel may send
EnvMsgs ==
  {TokenMsg(k) : k \in 1 .. MaxToken}
  \cup {RawMsg(0, k, c, p) : k \in 1 .. MaxToken, c \in 0 .. MaxIdx, p \in PixVals}

\* a datagram of the set msgs, from outside the modelled nodes, arrives
EnvRecvFrom(n, msgs) ==
  /\ up[n]
  /\ \E d \in msgs : Recv(n, d)
  /\ UNCHANGED <<ticked, now, inbox>>

\* a datagram from outside the modelled nodes arrives
EnvRecv(n) == EnvRecvFrom(n, EnvMsgs)

\* first bytes that are no datagram kind
UnknownKinds == {2, 255}

\* malformed datagrams other devices may send: truncated ones and ones with an
\* unknown first byte, the remaining bytes those of a datagram of a
\* higher-token sender
Malformed ==
  {[TokenMsg(MaxToken) EXCEPT !.len = l] : l \in 0 .. 4}
  \cup {[RawMsg(0, MaxToken, c, p) EXCEPT !.len = 9] : c \in {0, MaxIdx}, p \in PixVals}
  \cup {[TokenMsg(MaxToken) EXCEPT !.kind = k] : k \in UnknownKinds}
  \cup {[RawMsg(0, MaxToken, c, p) EXCEPT !.kind = k] :
           c \in {0, MaxIdx}, p \in PixVals, k \in UnknownKinds}

\* q ms pass: every running node has run its loop iteration and every
\* callback has run; the nodes in `on` are powered within `skew` quanta; the
\* run ends after `horizon` quanta
AdvanceBy(on, skew, horizon, q) ==
  /\ now < horizon * q
  /\ \A n \in Nodes : up[n] => ticked[n] /\ pc[n] = "idle" /\ inbox[n] = <<>>
  /\ now >= skew * q => \A n \in on : up[n]
  /\ now' = now + q
  /\ ticked' = [n \in Nodes |-> FALSE]
  /\ UNCHANGED <<node, up, pc, inbox, hist>>

\* the clock in steps of Quantum
Advance(on, skew, horizon) == AdvanceBy(on, skew, horizon, Quantum)

\* the Leader n loses power between two loop iterations, no datagram in
\* flight: it stops transmitting and stays down
Fail(n) ==
  /\ up[n]
  /\ \A m \in Nodes : pc[m] = "idle" /\ inbox[m] = <<>>
  /\ node[n].currentMode = AUTO /\ node[n].fsmState = LEADER
  /\ \A m \in Nodes : hist[m].afterLoss = "none"
  /\ up' = [up EXCEPT ![n] = FALSE]
  /\ node' = [node EXCEPT ![n] = InitNode]
  /\ inbox' = [inbox EXCEPT ![n] = <<>>]
  /\ hist' = [m \in Nodes |->
                IF m = n THEN [InitHist EXCEPT !.afterLoss = "failed"]
                ELSE IF up[m]
                  THEN [hist[m] EXCEPT !.afterLoss =
                          IF node[m].fsmState = FOLLOWER THEN "waiting" ELSE "elected"]
                ELSE hist[m]]
  /\ UNCHANGED <<pc, ticked, now>>

\* the clock of the runs in which the Leader is lost: every node has been
\* powered within MaxBootSkew quanta; a run without a loss ends after
\* MaxNetQuanta quanta, one with a loss after MaxLossQuanta
AdvanceLoss ==
  /\ now >= MaxBootSkew * Quantum =>
        \A n \in Nodes : up[n] \/ hist[n].afterLoss = "failed"
  /\ now < MaxNetQuanta * Quantum \/ \E n \in Nodes : hist[n].afterLoss = "failed"
  /\ AdvanceBy({}, 0, MaxLossQuanta, Quantum)

\* ------------------------------------------------------- datagrams as bytes
\* In the runs below the pixel buffer leds holds one <<r, g, b>> per pixel and
\* a datagram is the byte buffer handed to esp_now_send() with its length.
\* Buffers are sequences: C's buf[k] is buf[k + 1] here.

\* byte i of the unsigned value v
Byte(v, i) == (v \div (256 ^ i)) % 256

\* the four bytes the other way round
Bytes32BigEndian(v) == <<Byte(v, 3), Byte(v, 2), Byte(v, 1), Byte(v, 0)>>

\* memcpy(buf + k, &v, 4) of a uint32_t v on the little-endian ESP32
Bytes32(v) == <<Byte(v, 0), Byte(v, 1), Byte(v, 2), Byte(v, 3)>>

\* memcpy(&w, data + off, 4): the uint32_t read back; a value of 2^31 or more
\* is above every token and counter of the runs and reads as WrapsHigh
Word32(data, off) ==
  IF data[off + 4] >= 128 THEN WrapsHigh
  ELSE data[off + 1] + 256 * data[off + 2] + 65536 * data[off + 3]
         + 16777216 * data[off + 4]

\* sendToken(): buf[5] = {MSGTYPE_TOKEN, token}, sent with sizeof(buf)
sendTokenBytes(s) ==
  [data |-> <<MSGTYPE_TOKEN>> \o Bytes32(s.myToken), len |-> 5]

\* the body of sendRaw()'s loop for chunk c, the sequence counter being seq
sendRawBytes(s, seq, c, bri) ==
  LET base == c * CHUNK_LEDS
      cnt == Min(CHUNK_LEDS, NUM_LEDS - base)
  IN  [data |-> <<MSGTYPE_RAW>> \o Bytes32(seq) \o Bytes32(s.myToken)
                  \o <<c % 256>>
                  \o [k \in 1 .. 3 * cnt |->
                        scale8(s.leds[base + ((k - 1) \div 3)][((k - 1) % 3) + 1], bri)],
       len |-> 10 + cnt * 3]

\* int base = idx * 75, cnt = min(75, NUM_LEDS - base) on the index byte
CopyBase(data) == data[10] * CHUNK_LEDS
CopyCnt(data) == Min(CHUNK_LEDS, NUM_LEDS - CopyBase(data))

\* memcpy(leds + base, data + 10, cnt * 3); chunkMask |= (1 << idx); ...
\* buf is the memory at data: the datagram's bytes and what lies behind them
ApplyChunkBytes(s, buf, t) ==
  LET base == CopyBase(buf)
      cnt == CopyCnt(buf)
  IN  [s EXCEPT !.leds = [i \in DOMAIN s.leds |->
                            IF i >= base /\ i < base + cnt
                              THEN <<buf[10 + 3 * (i - base) + 1],
                                     buf[10 + 3 * (i - base) + 2],
                                     buf[10 + 3 * (i - base) + 3]>>
                              ELSE s.leds[i]],
                !.chunkMask = OrBit(@, buf[10]),
                !.lastRecvMillis = t,
                !.missedFrameCount = 0]

\* onRecv(data, len) on the bytes
onRecvBytes(s, buf, len, t) ==
  IF len >= 5 /\ buf[1] = MSGTYPE_TOKEN
    THEN RefreshLiveness(RatchetToken(s, Word32(buf, 1)), t)
  ELSE IF len < 10 \/ buf[1] # MSGTYPE_RAW THEN s
  ELSE IF s.fsmState = LEADER /\ Word32(buf, 5) > s.myToken THEN StepDown(s, t)
  ELSE IF AcceptsChunk(s) THEN ApplyChunkBytes(s, buf, t)
  ELSE s

\* the callback reaches the memcpy
ReachesCopy(s, buf, len) ==
  /\ ~(len >= 5 /\ buf[1] = MSGTYPE_TOKEN)
  /\ ~(len < 10 \/ buf[1] # MSGTYPE_RAW)
  /\ ~(s.fsmState = LEADER /\ Word32(buf, 5) > s.myToken)
  /\ AcceptsChunk(s)

\* tokens (24 bits), sequence counters, pixel buffers and brightness positions
\* of the wire runs
WireTokens == {1, 255, 256, 65538, 16777215}
WireSeqs == {0, 255, 65536, 2147483000}
WirePixels ==
  {[i \in 0 .. (NUM_LEDS - 1) |-> <<(7 * i + 1) % 256, (3 * i + 2) % 256, i % 256>>],
   [i \in 0 .. (NUM_LEDS - 1) |-> <<255, 128, 1>>]}
WireBright == {5, 9}
\* the receiver's pixels before any chunk
WireBlank == [i \in 0 .. (NUM_LEDS - 1) |-> <<9, 9, 9>>]
\* values of the memory behind a received datagram
FillVals == {0, 255}
\* index bytes and lengths of Pixel-Chunk datagrams from outside
WireIdx == {0, 3, 4, 5, 255}
WireLens == {10, 13, 10 + 3 * CHUNK_LEDS}

\* the sender (node 1, Leader) and the receiver (node 2, Follower in AUTO)
InitWire ==
  /\ \E tok \in WireTokens, seq \in WireSeqs, px \in WirePixels :
       node = [n \in Nodes |->
                 IF n = 1
                   THEN [InitNode EXCEPT !.myToken = tok, !.highestTokenSeen = tok,
                                         !.fsmState = LEADER, !.masterSeq = seq,
                                         !.leds = px]
                   ELSE [InitNode EXCEPT !.leds = WireBlank]]
  /\ up = [n \in Nodes |-> n \in Pair]
  /\ pc = [n \in Nodes |-> "idle"]
  /\ ticked = [n \in Nodes |-> FALSE]
  /\ now = Quantum
  /\ inbox = [n \in Nodes |-> <<>>]
  /\ hist = [n \in Nodes |-> InitHist]

\* a datagram of the sender on the wire: the bytes and length sent, and
\* beside them what the sender put in (src)
OnWire(dg, src) == [data |-> dg.data, len |-> dg.len, own |-> TRUE, src |-> src]

\* the sender's heartbeat
WireSendToken ==
  /\ up[2] /\ inbox[2] = <<>> /\ hist[1].ballots < MaxWireSends
  /\ inbox' = [inbox EXCEPT ![2] =
                 <<OnWire(sendTokenBytes(node[1]),
                          [kind |-> MSGTYPE_TOKEN, token |-> node[1].myToken])>>]
  /\ hist' = [hist EXCEPT ![1].ballots = @ + 1]
  /\ UNCHANGED <<node, up, pc, ticked, now>>

\* the pixels of chunk c as sendRaw() scales them
ScaledChunk(s, c, bri) ==
  [i \in (c * CHUNK_LEDS) .. (c * CHUNK_LEDS + ChunkCnt(c) - 1) |->
     <<scale8(s.leds[i][1], bri), scale8(s.leds[i][2], bri), scale8(s.leds[i][3], bri)>>]

\* the sender's sendRaw()
WireSendRaw ==
  /\ up[2] /\ inbox[2] = <<>> /\ hist[1].ballots < MaxWireSends
  /\ \E b \in WireBright :
       inbox' = [inbox EXCEPT ![2] =
                   [c \in 1 .. ChunkCount |->
                      OnWire(sendRawBytes(node[1], node[1].masterSeq + (c - 1), c - 1,
                                          Brightness(b)),
                             [kind |-> MSGTYPE_RAW, seq |-> node[1].masterSeq + (c - 1),
                              token |-> node[1].myToken, idx |-> c - 1,
                              pix |-> ScaledChunk(node[1], c - 1, Brightness(b))])]]
  /\ node' = [node EXCEPT ![1] = AfterSendRaw(node[1])]
  /\ hist' = [hist EXCEPT ![1].ballots = @ + 1]
  /\ UNCHANGED <<up, pc, ticked, now>>

\* a Pixel-Chunk datagram of another device: any index byte, any length
WireEnvSend ==
  /\ up[2] /\ inbox[2] = <<>> /\ hist[2].ballots < MaxWireEnv
  /\ \E idx \in WireIdx, len \in WireLens :
       inbox' = [inbox EXCEPT ![2] =
                   <<[data |-> [k \in 1 .. len |->
                                  IF k = 1 THEN MSGTYPE_RAW
                                  ELSE IF k = 10 THEN idx
                                  ELSE IF k > 10 THEN 200 ELSE 0],
                      len |-> len, own |-> FALSE, src |-> [kind |-> MSGTYPE_RAW]]>>]
  /\ hist' = [hist EXCEPT ![2].ballots = @ + 1]
  /\ UNCHANGED <<node, up, pc, ticked, now>>

\* the receiver's callback on the datagram at the head of its queue; a
\* negative count makes the memcpy fault; bytes read behind the datagram are
\* whatever the memory holds
WireRecv ==
  /\ up[2] /\ inbox[2] # <<>>
  /\ LET d == Head(inbox[2])
     IN  IF ReachesCopy(node[2], d.data, d.len) /\ CopyCnt(d.data) < 0
           THEN /\ node' = [node EXCEPT ![2] = InitNode]
                /\ up' = [up EXCEPT ![2] = FALSE]
           ELSE /\ \E fill \in FillVals :
                     LET buf == d.data \o [k \in 1 .. (10 + 3 * CHUNK_LEDS) |-> fill]
                     IN  node' = [node EXCEPT ![2] = onRecvBytes(node[2], buf, d.len, now)]
                /\ up' = up
  /\ inbox' = [inbox EXCEPT ![2] = Tail(@)]
  /\ UNCHANGED <<pc, ticked, now, hist>>

\* ----------------------------------------------------------- specifications
Init ==
  /\ node = [n \in Nodes |-> InitNode]
  /\ up = [n \in Nodes |-> FALSE]
  /\ pc = [n \in Nodes |-> "idle"]
  /\ ticked = [n \in Nodes |-> FALSE]
  /\ now = 0
  /\ inbox = [n \in Nodes |-> <<>>]
  /\ hist = [n \in Nodes |-> InitHist]

\* the steps of one node's loop
Loop(n) ==
  \/ TickFollower(n)
  \/ FollowerShow(n)
  \/ FollowerCheck(n)
  \/ FollowerMiss(n)
  \/ TickElect(n)
  \/ TickLeader(n)
  \/ LeaderStream(n)

\* one node among arbitrary senders: node 1, powered at time 0, in AUTO; any
\* datagram may arrive at any time; a node that faulted stays down
Next ==
  \/ Boot(1) /\ now = 0
  \/ Loop(1)
  \/ EnvRecv(1)
  \/ Advance({1}, 0, MaxQuanta)

Spec == Init /\ [][Next]_vars

\* the nodes among themselves: all in AUTO, powered within MaxBootSkew
\* quanta of each other, every broadcast delivered to every other node
NextNet ==
  \/ \E n \in Pair : Boot(n) /\ now <= MaxBootSkew * Quantum
  \/ \E n \in Nodes : Loop(n)
  \/ \E n \in Nodes : Deliver(n)
  \/ Advance(Pair, MaxBootSkew, MaxNetQuanta)

SpecNet == Init /\ [][NextNet]_vars

\* loop() never stops iterating, the radio task runs every pending callback
\* and the clock never stops
SpecNetFair == SpecNet /\ WF_vars(NextNet)

\* three nodes among themselves, all in AUTO, every broadcast delivered; the
\* node that leads may lose power
NextLoss ==
  \/ \E n \in Nodes : Boot(n) /\ now <= MaxBootSkew * Quantum
  \/ \E n \in Nodes : Loop(n)
  \/ \E n \in Nodes : Deliver(n)
  \/ \E n \in Nodes : Fail(n)
  \/ AdvanceLoss

SpecLoss == Init /\ [][NextLoss]_vars

\* one node alone on the channel, its loop iterating every FineQuantum ms:
\* the timing of its election round and of its heartbeats
NextFine ==
  \/ Boot(1) /\ now = 0
  \/ TickFollower(1)
  \/ FollowerCheck(1)
  \/ FollowerMiss(1)
  \/ TickElect(1)
  \/ TickLeader(1)
  \/ LeaderStream(1)
  \/ AdvanceBy({1}, 0, MaxFineQuanta, FineQuantum)

SpecFine == Init /\ [][NextFine]_vars

\* datagrams of a higher-token sender: its heartbeat and the first chunk of
\* its frames
ModeMsgs ==
  {TokenMsg(MaxToken)} \cup {RawMsg(0, MaxToken, 0, p) : p \in PixVals}

\* one node whose button A is clicked, among datagrams of a higher-token
\* sender
NextMode ==
  \/ Boot(1) /\ now = 0
  \/ ButtonA(1)
  \/ EnterNetworking(1)
  \/ TickLocal(1)
  \/ TickFollower(1)
  \/ FollowerCheck(1)
  \/ FollowerMiss(1)
  \/ TickElect(1)
  \/ TickLeader(1)
  \/ LeaderStream(1)
  \/ EnvRecvFrom(1, ModeMsgs)
  \/ Advance({1}, 0, MaxQuanta)

SpecMode == Init /\ [][NextMode]_vars

\* one node and a channel that carries malformed datagrams and the
\* heartbeats of a higher-token sender
NextDrop ==
  \/ Boot(1) /\ now = 0
  \/ TickFollower(1)
  \/ FollowerCheck(1)
  \/ FollowerMiss(1)
  \/ TickElect(1)
  \/ TickLeader(1)
  \/ LeaderStream(1)
  \/ EnvRecvFrom(1, Malformed \cup {TokenMsg(MaxToken)})
  \/ Advance({1}, 0, MaxQuanta)

SpecDrop == Init /\ [][NextDrop]_vars

\* a Leader's datagrams, and datagrams of other devices, byte by byte from
\* esp_now_send() to the receive callback of a Follower
NextWire ==
  \/ WireSendToken
  \/ WireSendRaw
  \/ WireEnvSend
  \/ WireRecv

SpecWire == InitWire /\ [][NextWire]_vars

\* ------------------------------------------------------------------ claims
\* the largest token among the nodes
TopToken == CHOOSE k \in {TokenOfMac(MacTail[n]) : n \in Nodes} :
              \A m \in Nodes : k >= TokenOfMac(MacTail[m])

\* C1 (as claimed): after a cold start with every broadcast delivered, the
\* election makes the maximum-token node Leader and every other node Follower:
\* a node that holds the Leader role holds the maximum token.
C1_ColdStartElectsMax ==
  \A n \in Nodes :
    up[n] /\ node[n].fsmState = LEADER => node[n].myToken = TopToken

\* nodes a and b both lead while participating
BothLead(a, b) ==
  /\ up[a] /\ node[a].currentMode = AUTO /\ node[a].fsmState = LEADER
  /\ up[b] /\ node[b].currentMode = AUTO /\ node[b].fsmState = LEADER

\* the run has at least one more quantum to go
QuantumLeft == now < MaxNetQuanta * Quantum

LoopStart(n) == ~ticked[n] /\ ticked'[n]

\* node n sends a datagram in this step
Emits(n) ==
  IF LoopStart(n) THEN hist'[n].tx # <<>>
  ELSE Len(hist'[n].tx) > Len(hist[n].tx)

\* node n is a participating Leader that has seen a token above its own
LeaderSawHigher(n) ==
  /\ up[n] /\ node[n].currentMode = AUTO
  /\ node[n].fsmState = LEADER /\ SeesHigher(node[n])

\* C3 (as claimed): a Leader that has observed a higher token sends no
\* further datagram: it becomes Follower first.
C3_LeaderYieldsBeforeSending ==
  [][\A n \in Nodes : LeaderSawHigher(n) => ~Emits(n)]_vars

\* node n's election round ends in this step, by the round's own conclusion
RoundEnds(n) ==
  /\ up[n] /\ up'[n] /\ node[n].currentMode = AUTO
  /\ node[n].fsmState = ELECT /\ node'[n].fsmState # ELECT

\* the largest token node n observed in its round, in either datagram kind
RoundMax(n) == Max(hist[n].obsTok, hist[n].obsRaw)

\* C4: an Electing node that observed no token above its own during the
\* round (only lower or equal ones, or none) ends the round as Leader.
C4_UnopposedWins ==
  [][\A n \in Nodes :
       RoundEnds(n) /\ RoundMax(n) <= node[n].myToken
         => node'[n].fsmState = LEADER]_vars

\* a round just concluded with a win over an observed lower or equal token
C4_Witness ==
  \E n \in Nodes :
    /\ up[n] /\ node[n].fsmState = LEADER /\ now >= node[n].electionEnd
    /\ RoundMax(n) > 0 /\ RoundMax(n) <= node[n].myToken

\* C5 (as claimed): the round ends as Leader only if no observed token, of a
\* Heartbeat/Token or of a Pixel-Chunk datagram, exceeded the node's own; a
\* higher observed token ends it as Follower with lastRecvMillis = now.
C5_HigherObservedLoses ==
  [][\A n \in Nodes :
       RoundEnds(n) =>
         IF RoundMax(n) > node[n].myToken
           THEN node'[n].fsmState = FOLLOWER /\ node'[n].lastRecvMillis = now
           ELSE node'[n].fsmState = LEADER]_vars

RoundStarts(n) == node[n].fsmState = FOLLOWER /\ node'[n].fsmState = ELECT

C7_MaskWithinChunkCount ==
  \A n \in Nodes : node[n].chunkMask <= FullMask

\* the valid chunk indices
ChunkIdx == 0 .. (ChunkCount - 1)

\* C8: a Follower fed only valid chunk indices since its mask was empty has
\* a complete frame exactly when it was fed every index, and the tick that
\* follows sees it complete.
C8_CompleteIffAllChunks ==
  /\ [](\A n \in Nodes :
          up[n] /\ hist[n].applied \subseteq ChunkIdx
            => (FrameComplete(node[n]) <=> hist[n].applied = ChunkIdx))
  /\ [][\A n \in Nodes :
          /\ LoopStart(n) /\ AcceptsChunk(node[n])
          /\ hist[n].applied = ChunkIdx
          => pc'[n] = "show"]_vars

\* the tick saw a frame complete that was fed index by index
C8_Witness ==
  \E n \in Nodes :
    up[n] /\ pc[n] = "show" /\ hist[n].applied = ChunkIdx

\* C9: once a frame has been shown and the mask reset, the frame is not
\* complete again, and no show is under way, unless every chunk index has
\* been copied again since the reset.
C9_ConsumedOnce ==
  \A n \in Nodes :
    up[n] /\ hist[n].consumed /\ (FrameComplete(node[n]) \/ pc[n] = "show")
      => ChunkIdx \subseteq hist[n].applied

\* after a show, a tick passed the completion test with part of the next
\* frame copied and did not show
C9_Witness ==
  \E n \in Nodes :
    /\ up[n] /\ hist[n].consumed /\ pc[n] = "check"
    /\ hist[n].applied # {} /\ hist[n].applied # ChunkIdx
    /\ hist[n].applied \subseteq ChunkIdx

\* C10: a Follower leaves the Follower role only into Electing and only in
\* the 3rd liveness check in a row that found lastRecvMillis stale by more
\* than LEADER_TIMEOUT, and that 3rd check does start the election; a
\* datagram handled in between restarts the count.
C10_ElectOnThirdMiss ==
  [][\A n \in Nodes :
       up[n] /\ up'[n] /\ node[n].currentMode = AUTO =>
         /\ node[n].fsmState = FOLLOWER /\ node'[n].fsmState # FOLLOWER
              => node'[n].fsmState = ELECT /\ hist[n].misses = MISSED_LIMIT
         /\ pc[n] = "missed" /\ pc'[n] = "idle" /\ hist[n].misses = MISSED_LIMIT
              => node'[n].fsmState = ELECT
         /\ pc[n] = "missed" /\ pc'[n] = "idle" /\ hist[n].misses < MISSED_LIMIT
              => node'[n].fsmState = FOLLOWER]_vars

\* an election was started by the third missed check
C10_Witness ==
  \E n \in Nodes :
    /\ up[n] /\ node[n].fsmState = ELECT /\ node[n].electionStart = now
    /\ pc[n] = "idle"

\* node n sends its round's Heartbeat/Token datagram in this step
SendsBallot(n) ==
  up[n] /\ node[n].currentMode = AUTO /\ node[n].fsmState = ELECT /\ Emits(n)

\* C11: within one election round a node sends at most one Heartbeat/Token
\* datagram, it carries the node's token, and it is sent only in a tick with
\* now >= electionStart + myDelay.
C11_OneBallotWhenDue ==
  /\ [](\A n \in Nodes : hist[n].ballots <= 1)
  /\ [][\A n \in Nodes :
          SendsBallot(n) =>
            /\ hist'[n].tx = <<TokenMsg(node[n].myToken)>>
            /\ now >= node[n].electionStart + node[n].myDelay]_vars

\* the ballot went out in the second tick of the round: in the first tick
\* the delay had not elapsed
C11_Witness ==
  \E n \in Nodes :
    /\ up[n] /\ node[n].fsmState = ELECT /\ hist[n].ballots = 1
    /\ hist[n].tx # <<>>
    /\ now >= node[n].electionStart + 2 * FineQuantum

\* C12 (as claimed): of two nodes that started an election round, the one
\* with the strictly higher token computed a myDelay <= the other's.
C12_HigherTokenNotLater ==
  \A a, b \in Nodes :
    /\ up[a] /\ node[a].fsmState = ELECT
    /\ up[b] /\ node[b].fsmState = ELECT
    /\ node[a].myToken > node[b].myToken
    => node[a].myDelay <= node[b].myDelay

\* C13: a malformed datagram is dropped: in every state the node can be in,
\* the callback run on any malformed datagram leaves every global as it was
\* (role, highestTokenSeen, chunkMask, leds, lastRecvMillis, missedFrameCount
\* among them) and does not fault.
C13_MalformedDropped ==
  \A n \in Nodes :
    up[n] => \A d \in Malformed :
               /\ IsMalformed(d)
               /\ ~onRecvFaults(node[n], d)
               /\ onRecv(node[n], d, now) = node[n]

\* a Leader just handled a malformed datagram
C13_Witness ==
  \E n \in Nodes :
    /\ up[n] /\ hist[n].junk /\ node[n].fsmState = LEADER
    /\ node[n].highestTokenSeen <= node[n].myToken

\* this step is a step of node n's loop() (every one moves pc or ticked)
LoopStep(n) == ticked'[n] # ticked[n] \/ pc'[n] # pc[n]

\* C14 (as claimed): the receive callback only enqueues; the globals of a
\* running node are written only by steps of its control loop.
C14_OnlyLoopWrites ==
  [][\A n \in Nodes :
       up[n] /\ up'[n] /\ node'[n] # node[n] => LoopStep(n)]_vars

\* node n leaves the participating mode in this step
LeavesAuto(n) ==
  up[n] /\ node[n].currentMode = AUTO /\ node'[n].currentMode # AUTO

\* C15 (as claimed): the mode change away from AUTO abandons the election
\* round and resets the liveness and reassembly state: after it the node is
\* not Electing, chunkMask is 0 and missedFrameCount is 0.
C15_LeavingAutoResets ==
  [][\A n \in Nodes :
       LeavesAuto(n) =>
         /\ node'[n].fsmState # ELECT
         /\ node'[n].chunkMask = 0
         /\ node'[n].missedFrameCount = 0]_vars

\* C16 (as claimed): outside AUTO the node sends no datagram, and a datagram
\* it receives changes none of fsmState, highestTokenSeen, chunkMask, leds,
\* lastRecvMillis and missedFrameCount.
C16_IdleOutsideAuto ==
  [][\A n \in Nodes :
       up[n] /\ up'[n] /\ node[n].currentMode # AUTO /\ node'[n].currentMode # AUTO
         => /\ ~Emits(n)
            /\ ~LoopStep(n) =>
                 /\ node'[n].fsmState = node[n].fsmState
                 /\ node'[n].highestTokenSeen = node[n].highestTokenSeen
                 /\ node'[n].chunkMask = node[n].chunkMask
                 /\ node'[n].leds = node[n].leds
                 /\ node'[n].lastRecvMillis = node[n].lastRecvMillis
                 /\ node'[n].missedFrameCount = node[n].missedFrameCount]_vars

\* node n's loop starts a LEADER tick in this step
LeaderTick(n) ==
  /\ up[n] /\ LoopStart(n)
  /\ node[n].currentMode = AUTO /\ node[n].fsmState = LEADER

\* node n's loop sends a frame in this step
Streams(n) == up[n] /\ pc[n] = "stream" /\ pc'[n] = "idle"

\* C17: a LEADER tick that has seen no higher token sends the frame; the
\* frame goes out as ChunkCount Pixel-Chunk datagrams with indices
\* 0..ChunkCount-1 in this order, carrying the node's token and the sequence
\* values masterSeq, masterSeq+1, ...; masterSeq advances by one per chunk and
\* changes in no other step, so successive datagrams carry consecutive values.
C17_StreamsFrameInOrder ==
  /\ [][\A n \in Nodes :
          LeaderTick(n) /\ ~SeesHigher(node[n]) => pc'[n] = "stream"]_vars
  /\ [][\A n \in Nodes :
          Streams(n) =>
            LET k == Len(hist[n].tx)
            IN  /\ Len(hist'[n].tx) = k + ChunkCount
                /\ \A c \in 1 .. ChunkCount :
                      /\ hist'[n].tx[k + c].kind = MSGTYPE_RAW
                      /\ hist'[n].tx[k + c].idx = c - 1
                      /\ hist'[n].tx[k + c].token = node[n].myToken
                      /\ hist'[n].tx[k + c].seq = node[n].masterSeq + (c - 1)
                /\ node'[n].masterSeq = node[n].masterSeq + ChunkCount]_vars
  /\ [][\A n \in Nodes :
          up[n] /\ up'[n] /\ node'[n].masterSeq # node[n].masterSeq
            => Streams(n)]_vars

\* a Leader has sent its third frame
C17_Witness ==
  \E n \in Nodes :
    /\ up[n] /\ node[n].fsmState = LEADER /\ pc[n] = "idle"
    /\ node[n].masterSeq = 3 * ChunkCount
    /\ Len(hist[n].tx) >= ChunkCount

\* node n's loop sends a heartbeat at the start of its tick in this step
SendsHeartbeat(n) ==
  hist'[n].tx # <<>> /\ hist'[n].tx[1] = TokenMsg(node[n].myToken)

\* C18: a tick of a node that stays Leader sends a Heartbeat/Token datagram
\* with the node's token exactly when LEADER_HEARTBEAT_INTERVAL ms or more
\* have passed since its previous heartbeat: every such tick sends one, no
\* two heartbeats are closer than the interval, and the tick streams as well.
C18_HeartbeatEveryInterval ==
  [][\A n \in Nodes :
       LeaderTick(n) /\ node'[n].fsmState = LEADER /\ hist[n].hbAt >= 0 =>
         /\ SendsHeartbeat(n) <=> now - hist[n].hbAt >= LEADER_HEARTBEAT_INTERVAL
         /\ pc'[n] = "stream"]_vars

\* a Leader sent a later heartbeat and the frame in the same tick
C18_Witness ==
  \E n \in Nodes :
    /\ up[n] /\ node[n].fsmState = LEADER /\ pc[n] = "idle"
    /\ hist[n].hbAt = now /\ node[n].masterSeq >= 5 * ChunkCount
    /\ Len(hist[n].tx) = 1 + ChunkCount

\* a well-formed Heartbeat/Token or Pixel-Chunk datagram
IsWellFormed(d) == IsTokenMsg(d) \/ ~IsDropped(d)

\* C19 (as claimed): on a Follower in AUTO every well-formed Heartbeat/Token
\* datagram, whatever its token, and every Pixel-Chunk datagram sets
\* lastRecvMillis to the receive time and missedFrameCount to 0.
C19_InboundRefreshesFollower ==
  \A n \in Nodes :
    up[n] /\ AcceptsChunk(node[n]) =>
      \A d \in EnvMsgs :
        IsWellFormed(d) =>
          /\ ~onRecvFaults(node[n], d)
          /\ onRecv(node[n], d, now).lastRecvMillis = now
          /\ onRecv(node[n], d, now).missedFrameCount = 0

\* node n is running after the Leader was lost
Remaining(n) == up[n] /\ hist[n].afterLoss \in {"waiting", "elected"}

\* C20 (as claimed): after the Leader is lost every remaining Follower
\* enters Electing: a node that was Follower at the loss has started an
\* election round by the time LEADER_TIMEOUT and its three missed checks have
\* passed since the latest possible loss (the end of the run).
C20_AllElectAfterLoss ==
  \A b \in Nodes :
    /\ now = MaxLossQuanta * Quantum
    /\ Remaining(b) /\ ticked[b] /\ pc[b] = "idle"
    => hist[b].afterLoss = "elected"

\* the role changes of the state machine
RoleChanges ==
  {<<FOLLOWER, ELECT>>, <<ELECT, LEADER>>, <<ELECT, FOLLOWER>>, <<LEADER, FOLLOWER>>}

\* C21: fsmState is always one of FOLLOWER, ELECT, LEADER; it is FOLLOWER
\* before and after setup(); every step that changes it, of the loop, of the
\* button handler or of the receive callback, makes one of the four changes
\* FOLLOWER to ELECT, ELECT to LEADER, ELECT to FOLLOWER, LEADER to FOLLOWER.
C21_RoleTransitions ==
  /\ [](\A n \in Nodes :
          /\ node[n].fsmState \in {FOLLOWER, ELECT, LEADER}
          /\ ~up[n] => node[n].fsmState = FOLLOWER)
  /\ [][\A n \in Nodes :
          /\ ~up[n] /\ up'[n] => node'[n].fsmState = FOLLOWER
          /\ node'[n].fsmState # node[n].fsmState
               => <<node[n].fsmState, node'[n].fsmState>> \in RoleChanges]_vars

\* the third click of button A brought the node back into AUTO as Follower
\* out of an election round it had started before the first click
C21_Witness ==
  \E n \in Nodes :
    /\ up[n] /\ hist[n].clicks = 3 /\ pc[n] = "net"
    /\ node[n].currentMode = AUTO /\ node[n].fsmState = FOLLOWER
    /\ node[n].electionStart > 0 /\ node[n].lastRecvMillis = now

\* the receiver handles a datagram of the sender in this step
WireDelivers ==
  /\ inbox[2] # <<>> /\ inbox'[2] = Tail(inbox[2])
  /\ Head(inbox[2]).own

\* C22: a Heartbeat/Token datagram is 5 bytes and the receiver reads the
\* sender's token from it; the Pixel-Chunk datagram of chunk c is
\* 10 + 3 * min(CHUNK_LEDS, NUM_LEDS - c * CHUNK_LEDS) bytes, the receiver
\* reads the sender's sequence counter, token and index from it and a Follower
\* writes its payload, the scaled pixels, to pixels base .. base + cnt - 1 and
\* changes no other pixel.
C22_WireRoundTrip ==
  [][WireDelivers =>
       LET d == Head(inbox[2])
           src == d.src
       IN  IF src.kind = MSGTYPE_TOKEN
             THEN /\ d.len = 5 /\ Len(d.data) = 5
                  /\ IsTokenMsg([kind |-> d.data[1], len |-> d.len])
                  /\ Word32(d.data, 1) = src.token
                  /\ node'[2].highestTokenSeen = Max(node[2].highestTokenSeen, src.token)
             ELSE LET c == src.idx
                      base == c * CHUNK_LEDS
                      cnt == Min(CHUNK_LEDS, NUM_LEDS - c * CHUNK_LEDS)
                  IN  /\ d.len = 10 + 3 * cnt /\ Len(d.data) = d.len
                      /\ d.data[1] = MSGTYPE_RAW
                      /\ Word32(d.data, 1) = src.seq
                      /\ Word32(d.data, 5) = src.token
                      /\ d.data[10] = c
                      /\ up'[2]
                      /\ \A i \in 0 .. (NUM_LEDS - 1) :
                            node'[2].leds[i] =
                              IF i >= base /\ i < base + cnt
                                THEN src.pix[i] ELSE node[2].leds[i]]_vars

\* the receiver has copied the last chunk of a frame of the sender with the
\* largest token and a sequence counter above 2^16
C22_Witness ==
  /\ up[2] /\ inbox[2] = <<>> /\ node[2].chunkMask = FullMask
  /\ node[2].highestTokenSeen = 16777215
  /\ node[1].masterSeq > 65536
  /\ node[2].leds[NUM_LEDS - 1] # WireBlank[NUM_LEDS - 1]

\* the datagrams node n sends in this step
NewlySent(n) ==
  IF LoopStart(n) THEN hist'[n].tx
  ELSE SubSeq(hist'[n].tx, Len(hist[n].tx) + 1, Len(hist'[n].tx))

\* C23 (as claimed): whatever the interleaving of the callback with the
\* tick, a node sends a Pixel-Chunk datagram only while fsmState is LEADER and
\* a Heartbeat/Token datagram only while it is ELECT or LEADER; with fsmState
\* FOLLOWER at the moment of sending it sends nothing.
C23_SendsOnlyInRole ==
  [][\A n \in Nodes :
       up[n] /\ Emits(n) =>
         \A i \in 1 .. Len(NewlySent(n)) :
           /\ NewlySent(n)[i].kind = MSGTYPE_RAW => node[n].fsmState = LEADER
           /\ NewlySent(n)[i].kind = MSGTYPE_TOKEN
                => node[n].fsmState \in {ELECT, LEADER}]_vars

\* C24 (as claimed): when a Follower accepts a Pixel-Chunk datagram of
\* length len >= 10, the number of bytes the memcpy copies is not negative,
\* not greater than len - 10, and the copy stays inside the pixel buffer,
\* whatever the index byte and the length.
C24_CopyWithinPayload ==
  up[2] /\ inbox[2] # <<>> =>
    LET d == Head(inbox[2])
    IN  ReachesCopy(node[2], d.data, d.len) =>
          /\ 3 * CopyCnt(d.data) >= 0
          /\ 3 * CopyCnt(d.data) <= d.len - 10
          /\ CopyBase(d.data) + CopyCnt(d.data) <= NUM_LEDS

\* C25 (as claimed): the election delay computed in uint32_t arithmetic
\* equals the value of the same formula in unbounded arithmetic, and myDelay,
\* jitter included, is less than the election window ELECTION_TIMEOUT.
C25_DelayExactAndInWindow ==
  \A n \in Nodes :
    up[n] /\ node[n].fsmState = ELECT =>
      /\ ElectionBaseDelay32(node[n].myToken) = ElectionBaseDelayExact(node[n].myToken)
      /\ node[n].myDelay < ELECTION_TIMEOUT

\* node n starts a Follower tick in this step, every chunk of a frame having
\* been copied since its mask was last cleared
FrameReceived(n) ==
  /\ up[n] /\ AcceptsChunk(node[n]) /\ LoopStart(n)
  /\ ChunkIdx \subseteq hist[n].applied

\* C26 (as claimed): whatever datagrams a Follower in AUTO received before,
\* once every chunk 0..ChunkCount-1 of a frame has been copied, a tick shows
\* the frame and resets chunkMask.  The completion test is the first
\* statement of every Follower tick and bits of chunkMask are cleared only by
\* the show (or by a step-down from Leader), so the frame is shown at all
\* exactly when the first tick after the last chunk shows it.
C26_CompleteFrameShown ==
  [][\A n \in Nodes : FrameReceived(n) => pc'[n] = "show"]_vars

\* the system has settled with l its only Leader: every running node has
\* finished its loop iteration, no datagram is pending, l has seen no token
\* above its own, and every other running node is a Follower that l's
\* datagrams have just refreshed
Settled(l) ==
  /\ up[l] /\ node[l].fsmState = LEADER /\ ~SeesHigher(node[l])
  /\ \E m \in Nodes : m # l /\ up[m]
  /\ \A m \in Nodes :
       up[m] => /\ node[m].currentMode = AUTO
                /\ pc[m] = "idle" /\ ticked[m] /\ inbox[m] = <<>>
                /\ m # l => /\ node[m].fsmState = FOLLOWER
                            /\ node[m].lastRecvMillis = now
                            /\ node[m].missedFrameCount = 0

\* C27 (as claimed): whenever the system has settled with exactly one Leader
\* and every other node Follower, the Leader's token is the largest token
\* among the running nodes.
C27_SettledLeaderIsMax ==
  \A l \in Nodes :
    Settled(l) => \A m \in Nodes : up[m] => node[l].myToken >= node[m].myToken

====
